---- MODULE Spec2Model ----
(***************************************************************************)
(* Board-representation primitives of kanimiso: Square (square.rs),        *)
(* Bitboard (bitboard.rs) and Color / PieceKind / Piece (piece.rs).        *)
(*                                                                         *)
(* A u128 is modelled as the set of its set-bit positions, a subset of     *)
(* 0..127, so that the full width of the integer is kept.  A u8 is a       *)
(* natural number below 256.  A call that may panic yields Ok(v) or Panic.  *)
(***************************************************************************)
EXTENDS Naturals, Sequences, FiniteSets

VARIABLES
  bb,       \* the Bitboard value last constructed (also the fold's accumulator)
  nops,     \* number of operators applied to a constant to reach bb
  src,      \* the Square bb was converted from, or NoSquare
  out,      \* outcome of rendering bb with Display, or NotRendered
  family,   \* mask fold: "FILE" or "RANK", or NoFamily outside a fold
  seen,     \* mask fold: the numbers 1..9 of the masks OR-ed into bb so far
  held,     \* the Square held: <<v>> for Square(v), or NoSquare
  got,      \* <<file(), rank(), index()>> read from held, or NotRead
  call,     \* the last call: <<name, argument(s), outcome>>, or NoCall
  val,      \* the piece value held: <<"u8", v>>, <<"PieceKind", k>>,
            \* <<"Piece", p>>, or NoValue once a call has panicked
  chain     \* what the promote() calls made in a row on val returned

bbVars == <<bb, nops, src, out>>
maskVars == <<family, seen>>
sqVars == <<held, got, call>>
pieceVars == <<val, chain>>
vars == <<bb, nops, src, out, family, seen, held, got, call, val, chain>>

\* ------------------------------------------------------------ bounds

\* Longest chain of operators (AND, OR, XOR, NOT) applied to a constant.
MaxOps == 1

\* ------------------------------------------------------------ machine integers

\* The outcome of a call that may panic: Ok(v) when it returns v, Panic when
\* a panic!/assert! ends it.  Val reads the value of an Ok outcome.
Ok(v) == <<"ok", v>>
Panic == <<"panic">>
Panicked(r) == r[1] = "panic"
Val(r) == r[2]

\* Width of u128 and the positions of its bits.
U128_BITS == 128
BitPos == 0 .. (U128_BITS - 1)

\* The u128 values 0 and 1.
Zero == {}
One == {0}

\* Bits of one hexadecimal digit d, placed at bit offset off.
NibbleBits(d, off) ==
  {off + i : i \in {j \in 0..3 : (d \div (2^j)) % 2 = 1}}

\* A hexadecimal literal, given by its digits (most significant first).
Hex(digits) ==
  UNION {NibbleBits(digits[k], 4 * (Len(digits) - k)) : k \in 1..Len(digits)}

\* x << n on u128: bits shifted past bit 127 are lost.
Shl(x, n) == {i + n : i \in x} \cap BitPos

\* x - 1 on u128, for x > 0: borrow through the trailing zeros.
Sub1(x) ==
  LET low == CHOOSE i \in x : \A j \in x : i <= j
  IN  (x \ {low}) \cup (0 .. (low - 1))

\* ------------------------------------------------------------ square.rs

\* Square::COUNT
Square_COUNT == 81

\* A from_coord whose assert admits 9, as its message words the range.
from_coord_inclusive(file, rank) ==
  IF file <= 9 /\ rank <= 9 THEN Ok((file * 9 + rank) % 256) ELSE Panic

\* A from_coord that takes the rank as the major coordinate.
from_coord_swapped(file, rank) ==
  IF file < 9 /\ rank < 9 THEN Ok((rank * 9 + file) % 256) ELSE Panic

\* Square::from_coord: the assert, then Self(file * 9 + rank) in u8.
from_coord(file, rank) ==
  IF file < 9 /\ rank < 9 THEN Ok((file * 9 + rank) % 256) ELSE Panic

\* Square::file, Square::rank, Square::index on Square(v).
Square_file(sq) == sq \div 9
Square_rank(sq) == sq % 9
Square_index(sq) == sq

\* The coordinates accepted by from_coord.
Coord == 0 .. 8

\* The names given to const_squares!, in the order written.
SquareNames == <<
    "SQ_11", "SQ_12", "SQ_13", "SQ_14", "SQ_15", "SQ_16", "SQ_17", "SQ_18", "SQ_19",
    "SQ_21", "SQ_22", "SQ_23", "SQ_24", "SQ_25", "SQ_26", "SQ_27", "SQ_28", "SQ_29",
    "SQ_31", "SQ_32", "SQ_33", "SQ_34", "SQ_35", "SQ_36", "SQ_37", "SQ_38", "SQ_39",
    "SQ_41", "SQ_42", "SQ_43", "SQ_44", "SQ_45", "SQ_46", "SQ_47", "SQ_48", "SQ_49",
    "SQ_51", "SQ_52", "SQ_53", "SQ_54", "SQ_55", "SQ_56", "SQ_57", "SQ_58", "SQ_59",
    "SQ_61", "SQ_62", "SQ_63", "SQ_64", "SQ_65", "SQ_66", "SQ_67", "SQ_68", "SQ_69",
    "SQ_71", "SQ_72", "SQ_73", "SQ_74", "SQ_75", "SQ_76", "SQ_77", "SQ_78", "SQ_79",
    "SQ_81", "SQ_82", "SQ_83", "SQ_84", "SQ_85", "SQ_86", "SQ_87", "SQ_88", "SQ_89",
    "SQ_91", "SQ_92", "SQ_93", "SQ_94", "SQ_95", "SQ_96", "SQ_97", "SQ_98", "SQ_99" >>

\* const_squares!: the first name is declared with the value given, each
\* following name with the value before it + 1.
RECURSIVE const_squares(_, _)
const_squares(value, names) ==
  IF names = <<>> THEN <<>>
  ELSE <<[name |-> Head(names), value |-> value]>>
         \o const_squares(value + 1, Tail(names))

\* The constants declared in impl Square, and the Square one of them names.
SquareConsts == const_squares(0, SquareNames)
Square_const(name) ==
  (CHOOSE d \in {SquareConsts[i] : i \in DOMAIN SquareConsts} : d.name = name).value

\* ------------------------------------------------------------ bitboard.rs

\* Bitboard::count, is_empty, is_any.
count(b) == Cardinality(b)
is_empty(b) == b = Zero
is_any(b) == b # Zero

\* impl BitAnd / BitOr / BitXor / Not for &Bitboard.
bitand(a, b) == a \cap b
bitor(a, b) == a \cup b
bitxor(a, b) == (a \ b) \cup (b \ a)
not(a) == BitPos \ a

EMPTY == Zero
FULL == Sub1(Shl(One, 81))

FILE_1 == Shl(Hex(<<1, 15, 15>>), 9 * 0)
FILE_2 == Shl(Hex(<<1, 15, 15>>), 9 * 1)
FILE_3 == Shl(Hex(<<1, 15, 15>>), 9 * 2)
FILE_4 == Shl(Hex(<<1, 15, 15>>), 9 * 3)
FILE_5 == Shl(Hex(<<1, 15, 15>>), 9 * 4)
FILE_6 == Shl(Hex(<<1, 15, 15>>), 9 * 5)
FILE_7 == Shl(Hex(<<1, 15, 15>>), 9 * 6)
FILE_8 == Shl(Hex(<<1, 15, 15>>), 9 * 7)
\* A FILE_9 left with the shift of FILE_8.
FILE_9_copied == Shl(Hex(<<1, 15, 15>>), 9 * 7)
FILE_9 == Shl(Hex(<<1, 15, 15>>), 9 * 8)

\* The literal with one digit mistyped: 0x1008040201008040401.
RankBase_typo == Hex(<<1, 0, 0, 8, 0, 4, 0, 2, 0, 1, 0, 0, 8, 0, 4, 0, 4, 0, 1>>)

\* The literal 0x1008040201008040201.
RankBase == Hex(<<1, 0, 0, 8, 0, 4, 0, 2, 0, 1, 0, 0, 8, 0, 4, 0, 2, 0, 1>>)

RANK_1 == Shl(RankBase, 0)
RANK_2 == Shl(RankBase, 1)
RANK_3 == Shl(RankBase, 2)
RANK_4 == Shl(RankBase, 3)
RANK_5 == Shl(RankBase, 4)
RANK_6 == Shl(RankBase, 5)
RANK_7 == Shl(RankBase, 6)
RANK_8 == Shl(RankBase, 7)
RANK_9 == Shl(RankBase, 8)

\* FILE_1..FILE_9 and RANK_1..RANK_9 by number.
FILES == <<FILE_1, FILE_2, FILE_3, FILE_4, FILE_5, FILE_6, FILE_7, FILE_8, FILE_9>>
RANKS == <<RANK_1, RANK_2, RANK_3, RANK_4, RANK_5, RANK_6, RANK_7, RANK_8, RANK_9>>

\* A SQUARES table whose entry 40 repeats the shift of entry 39.
SQUARES_typo == [k \in 1 .. 81 |-> Shl(One, IF k = 41 THEN 39 ELSE k - 1)]

\* Bitboard::SQUARES: entry i (0-based) is Bitboard(1 << i); a TLA+ sequence
\* is 1-based, so SQUARES_at reads entry i.
SQUARES == [k \in 1 .. 81 |-> Shl(One, k - 1)]
SQUARES_at(i) == SQUARES[i + 1]

\* impl From<Square> for &Bitboard and for Bitboard.
Bitboard_ref_from(sq) == SQUARES_at(Square_index(sq))
Bitboard_from(sq) == SQUARES_at(Square_index(sq))

\* One character of Display::fmt: the body of the inner loop.
fmt_cell(b, file, rank) ==
  LET square == from_coord(file, rank)
  IN  IF Panicked(square) THEN Panic
      ELSE IF bitand(b, Shl(One, Square_index(Val(square)))) # Zero
           THEN Ok("1") ELSE Ok("0")

\* An inner loop that runs over the files in ascending order.
fmt_files_ascending(b, rank, file) ==
  [j \in 1 .. (file + 1) |-> fmt_cell(b, j - 1, rank)]

\* The inner loop, for file in (0..9).rev(), from file downwards: the
\* outcomes of its write! calls, in order.
RECURSIVE fmt_files(_, _, _)
fmt_files(b, rank, file) ==
  <<fmt_cell(b, file, rank)>>
    \o (IF file = 0 THEN <<>> ELSE fmt_files(b, rank, file - 1))

\* The outer loop, for rank in 0..9, from rank upwards; writeln! ends a line.
RECURSIVE fmt_ranks(_, _)
fmt_ranks(b, rank) ==
  IF rank = 9 THEN <<>>
  ELSE fmt_files(b, rank, 8) \o <<Ok("\n")>> \o fmt_ranks(b, rank + 1)

\* impl Display for Bitboard, through to_string(): the text written, as a
\* sequence of characters, unless a step panicked.
fmt(b) ==
  LET steps == fmt_ranks(b, 0)
  IN  IF \E i \in DOMAIN steps : Panicked(steps[i]) THEN Panic
      ELSE Ok([i \in DOMAIN steps |-> Val(steps[i])])

\* ------------------------------------------------------------ piece.rs

\* Bit i of the u8 a, and the operators & and | on u8.
u8_bit(a, i) == (a \div (2^i)) % 2
RECURSIVE u8_and_from(_, _, _)
u8_and_from(a, b, i) ==
  IF i = 8 THEN 0
  ELSE (2^i) * (u8_bit(a, i) * u8_bit(b, i)) + u8_and_from(a, b, i + 1)
u8_and(a, b) == u8_and_from(a, b, 0)
u8_or(a, b) == (a + b) - u8_and(a, b)

\* PROMOTION_MASK (0x08), WHITE_MASK (0x10), PIECE_KIND_MASK (0x0F) and
\* their _U8 casts.
PROMOTION_MASK == 8
PROMOTION_MASK_U8 == PROMOTION_MASK % 256
WHITE_MASK == 16
WHITE_MASK_U8 == WHITE_MASK % 256
PIECE_KIND_MASK == 15
PIECE_KIND_MASK_U8 == PIECE_KIND_MASK % 256

\* enum PieceKind: the variants without an explicit discriminant, in the
\* order declared, count up from 0.
BaseKinds == {"Pawn", "Lance", "Knight", "Silver", "Bishop", "Rook",
              "Gold", "King"}
Implicit(k) ==
  CASE k = "Pawn" -> 0
    [] k = "Lance" -> 1
    [] k = "Knight" -> 2
    [] k = "Silver" -> 3
    [] k = "Bishop" -> 4
    [] k = "Rook" -> 5
    [] k = "Gold" -> 6
    [] k = "King" -> 7

\* enum PieceKind: every variant, and `kind as u8`.
PieceKinds ==
  BaseKinds \cup {"ProPawn", "ProLance", "ProKnight", "ProSilver", "Horse",
                  "Dragon"}
PieceKind_as_u8(k) ==
  CASE k \in BaseKinds -> Implicit(k)
    [] k = "ProPawn" -> u8_or(Implicit("Pawn"), PROMOTION_MASK)
    [] k = "ProLance" -> u8_or(Implicit("Lance"), PROMOTION_MASK)
    [] k = "ProKnight" -> u8_or(Implicit("Knight"), PROMOTION_MASK)
    [] k = "ProSilver" -> u8_or(Implicit("Silver"), PROMOTION_MASK)
    [] k = "Horse" -> u8_or(Implicit("Bishop"), PROMOTION_MASK)
    [] k = "Dragon" -> u8_or(Implicit("Rook"), PROMOTION_MASK)

\* A From<u8> for PieceKind whose last arm is a catch-all instead of a
\* panic.
PieceKind_from_no_panic(value) ==
  CASE value = 0 -> Ok("Pawn")
    [] value = 1 -> Ok("Lance")
    [] value = 2 -> Ok("Knight")
    [] value = 3 -> Ok("Silver")
    [] value = 4 -> Ok("Bishop")
    [] value = 5 -> Ok("Rook")
    [] value = 6 -> Ok("Gold")
    [] value = 7 -> Ok("King")
    [] value = 8 -> Ok("ProPawn")
    [] value = 9 -> Ok("ProLance")
    [] value = 10 -> Ok("ProKnight")
    [] value = 11 -> Ok("ProSilver")
    [] value = 12 -> Ok("Horse")
    [] OTHER -> Ok("Dragon")

\* A From<u8> for PieceKind with the arms of 12 and 13 exchanged.
PieceKind_from_swapped(value) ==
  CASE value = 0 -> Ok("Pawn")
    [] value = 1 -> Ok("Lance")
    [] value = 2 -> Ok("Knight")
    [] value = 3 -> Ok("Silver")
    [] value = 4 -> Ok("Bishop")
    [] value = 5 -> Ok("Rook")
    [] value = 6 -> Ok("Gold")
    [] value = 7 -> Ok("King")
    [] value = 8 -> Ok("ProPawn")
    [] value = 9 -> Ok("ProLance")
    [] value = 10 -> Ok("ProKnight")
    [] value = 11 -> Ok("ProSilver")
    [] value = 12 -> Ok("Dragon")
    [] value = 13 -> Ok("Horse")
    [] OTHER -> Panic

\* impl From<u8> for PieceKind
PieceKind_from(value) ==
  CASE value = 0 -> Ok("Pawn")
    [] value = 1 -> Ok("Lance")
    [] value = 2 -> Ok("Knight")
    [] value = 3 -> Ok("Silver")
    [] value = 4 -> Ok("Bishop")
    [] value = 5 -> Ok("Rook")
    [] value = 6 -> Ok("Gold")
    [] value = 7 -> Ok("King")
    [] value = 8 -> Ok("ProPawn")
    [] value = 9 -> Ok("ProLance")
    [] value = 10 -> Ok("ProKnight")
    [] value = 11 -> Ok("ProSilver")
    [] value = 12 -> Ok("Horse")
    [] value = 13 -> Ok("Dragon")
    [] OTHER -> Panic

\* Option<T>
None == <<"None">>
Some(x) == <<"Some", x>>

\* PieceKind::is_promoted
PieceKind_is_promoted(k) == u8_and(PieceKind_as_u8(k), PROMOTION_MASK_U8) # 0

\* A promote that leaves Rook out of the promotable kinds.
PieceKind_promote_no_rook(k) ==
  IF k \in {"Pawn", "Lance", "Knight", "Silver", "Bishop"}
  THEN LET r == PieceKind_from(u8_or(PieceKind_as_u8(k), PROMOTION_MASK_U8))
       IN  IF Panicked(r) THEN Panic ELSE Ok(Some(Val(r)))
  ELSE Ok(None)

\* A promote that flips the promotion bit of every kind that has a
\* counterpart, so that a promoted kind goes back to its base kind.
PieceKind_promote_toggle(k) ==
  IF k \in {"Gold", "King"} THEN Ok(None)
  ELSE LET bit == u8_and(PieceKind_as_u8(k), PROMOTION_MASK_U8)
           r == PieceKind_from(PieceKind_as_u8(k) + PROMOTION_MASK_U8 - 2 * bit)
       IN  IF Panicked(r) THEN Panic ELSE Ok(Some(Val(r)))

\* PieceKind::promote: Ok(Some(kind)) or Ok(None), or Panic out of from().
PieceKind_promote(k) ==
  IF k \in {"Pawn", "Lance", "Knight", "Silver", "Bishop", "Rook"}
  THEN LET r == PieceKind_from(u8_or(PieceKind_as_u8(k), PROMOTION_MASK_U8))
       IN  IF Panicked(r) THEN Panic ELSE Ok(Some(Val(r)))
  ELSE Ok(None)

\* enum Color
Colors == {"Black", "White"}

\* enum Piece: every variant, and `piece as u8`.
Pieces ==
  {"BPawn", "BLance", "BKnight", "BSilver", "BBishop", "BRook", "BGold",
   "BKing", "BProPawn", "BProLance", "BProKnight", "BProSilver", "BHorse",
   "BDragon"}
    \cup {"WPawn", "WLance", "WKnight", "WSilver", "WBishop", "WRook",
          "WGold", "WKing", "WProPawn", "WProLance", "WProKnight",
          "WProSilver", "WHorse", "WDragon"}
Piece_as_u8(p) ==
  CASE p = "BPawn" -> PieceKind_as_u8("Pawn")
    [] p = "BLance" -> PieceKind_as_u8("Lance")
    [] p = "BKnight" -> PieceKind_as_u8("Knight")
    [] p = "BSilver" -> PieceKind_as_u8("Silver")
    [] p = "BBishop" -> PieceKind_as_u8("Bishop")
    [] p = "BRook" -> PieceKind_as_u8("Rook")
    [] p = "BGold" -> PieceKind_as_u8("Gold")
    [] p = "BKing" -> PieceKind_as_u8("King")
    [] p = "BProPawn" -> PieceKind_as_u8("ProPawn")
    [] p = "BProLance" -> PieceKind_as_u8("ProLance")
    [] p = "BProKnight" -> PieceKind_as_u8("ProKnight")
    [] p = "BProSilver" -> PieceKind_as_u8("ProSilver")
    [] p = "BHorse" -> PieceKind_as_u8("Horse")
    [] p = "BDragon" -> PieceKind_as_u8("Dragon")
    [] p = "WPawn" -> u8_or(PieceKind_as_u8("Pawn"), WHITE_MASK)
    [] p = "WLance" -> u8_or(PieceKind_as_u8("Lance"), WHITE_MASK)
    [] p = "WKnight" -> u8_or(PieceKind_as_u8("Knight"), WHITE_MASK)
    [] p = "WSilver" -> u8_or(PieceKind_as_u8("Silver"), WHITE_MASK)
    [] p = "WBishop" -> u8_or(PieceKind_as_u8("Bishop"), WHITE_MASK)
    [] p = "WRook" -> u8_or(PieceKind_as_u8("Rook"), WHITE_MASK)
    [] p = "WGold" -> u8_or(PieceKind_as_u8("Gold"), WHITE_MASK)
    [] p = "WKing" -> u8_or(PieceKind_as_u8("King"), WHITE_MASK)
    [] p = "WProPawn" -> u8_or(PieceKind_as_u8("ProPawn"), WHITE_MASK)
    [] p = "WProLance" -> u8_or(PieceKind_as_u8("ProLance"), WHITE_MASK)
    [] p = "WProKnight" -> u8_or(PieceKind_as_u8("ProKnight"), WHITE_MASK)
    [] p = "WProSilver" -> u8_or(PieceKind_as_u8("ProSilver"), WHITE_MASK)
    [] p = "WHorse" -> u8_or(PieceKind_as_u8("Horse"), WHITE_MASK)
    [] p = "WDragon" -> u8_or(PieceKind_as_u8("Dragon"), WHITE_MASK)

\* impl From<u8> for Piece
Piece_from(value) ==
  CASE value = 0 -> Ok("BPawn")
    [] value = 1 -> Ok("BLance")
    [] value = 2 -> Ok("BKnight")
    [] value = 3 -> Ok("BSilver")
    [] value = 4 -> Ok("BBishop")
    [] value = 5 -> Ok("BRook")
    [] value = 6 -> Ok("BGold")
    [] value = 7 -> Ok("BKing")
    [] value = 8 -> Ok("BProPawn")
    [] value = 9 -> Ok("BProLance")
    [] value = 10 -> Ok("BProKnight")
    [] value = 11 -> Ok("BProSilver")
    [] value = 12 -> Ok("BHorse")
    [] value = 13 -> Ok("BDragon")
    [] value = 16 -> Ok("WPawn")
    [] value = 17 -> Ok("WLance")
    [] value = 18 -> Ok("WKnight")
    [] value = 19 -> Ok("WSilver")
    [] value = 20 -> Ok("WBishop")
    [] value = 21 -> Ok("WRook")
    [] value = 22 -> Ok("WGold")
    [] value = 23 -> Ok("WKing")
    [] value = 24 -> Ok("WProPawn")
    [] value = 25 -> Ok("WProLance")
    [] value = 26 -> Ok("WProKnight")
    [] value = 27 -> Ok("WProSilver")
    [] value = 28 -> Ok("WHorse")
    [] value = 29 -> Ok("WDragon")
    [] OTHER -> Panic

\* A Piece::new with the colour masks exchanged.
Piece_new_swapped(color, piece_kind) ==
  LET color_mask == IF color = "Black" THEN WHITE_MASK_U8 ELSE 0
  IN  Piece_from(u8_or(PieceKind_as_u8(piece_kind), color_mask))

\* Piece::new
Piece_new(color, piece_kind) ==
  LET color_mask == IF color = "Black" THEN 0 ELSE WHITE_MASK_U8
  IN  Piece_from(u8_or(PieceKind_as_u8(piece_kind), color_mask))

\* Piece::kind
Piece_kind(p) == PieceKind_from(u8_and(Piece_as_u8(p), PIECE_KIND_MASK_U8))

\* Piece::is_black, is_white, color, is_promoted
Piece_is_black(p) == u8_and(Piece_as_u8(p), WHITE_MASK_U8) = 0
Piece_is_white(p) == u8_and(Piece_as_u8(p), WHITE_MASK_U8) # 0
Piece_color(p) == IF Piece_is_black(p) THEN "Black" ELSE "White"
Piece_is_promoted(p) == u8_and(Piece_as_u8(p), PROMOTION_MASK_U8) # 0

\* Piece::promote: kind.promote().map(|kind| Self::new(self.color(), kind))
Piece_promote(p) ==
  LET kind == Piece_kind(p)
      promoted == IF Panicked(kind) THEN Panic ELSE PieceKind_promote(Val(kind))
  IN  IF Panicked(promoted) THEN Panic
      ELSE IF Val(promoted) = None THEN Ok(None)
      ELSE LET made == Piece_new(Piece_color(p), Val(promoted)[2])
           IN  IF Panicked(made) THEN Panic ELSE Ok(Some(Val(made)))

\* ------------------------------------------------------------ Bitboard spec

\* src holds <<sq>> after a conversion from sq.
NoSquare == <<>>
NotRendered == <<"not rendered">>

\* The Squares a caller can hold: the results of from_coord.
Squares == {Val(from_coord(f, r)) : f \in Coord, r \in Coord}

\* The named mask constants: the right operands of the binary operators.
\* (Singleton boards enter as left operands, through Convert.)
Masks ==
  {EMPTY, FULL} \cup {FILES[i] : i \in 1..9} \cup {RANKS[i] : i \in 1..9}

NoFamily == "none"
NotRead == <<>>
NoCall == <<>>
NoValue == <<>>

Init ==
  /\ bb \in Masks
  /\ nops = 0
  /\ src = NoSquare
  /\ out = NotRendered
  /\ family = NoFamily
  /\ seen = {}
  /\ held = NoSquare
  /\ got = NotRead
  /\ call = NoCall
  /\ val = NoValue
  /\ chain = <<>>

\* Bitboard::from(sq), and <&Bitboard>::from(sq) read through the reference.
Convert(sq) ==
  /\ nops = 0
  /\ out = NotRendered
  /\ bb' = Bitboard_from(sq)
  /\ nops' = 0
  /\ src' = <<sq>>
  /\ out' = NotRendered
  /\ UNCHANGED <<maskVars, sqVars, pieceVars>>

\* &bb & &rhs, &bb | &rhs, &bb ^ &rhs with a named mask, and !&bb.
And(rhs) ==
  /\ nops < MaxOps
  /\ bb' = bitand(bb, rhs)
  /\ nops' = nops + 1
  /\ src' = NoSquare
  /\ out' = NotRendered
  /\ UNCHANGED <<maskVars, sqVars, pieceVars>>

Or(rhs) ==
  /\ nops < MaxOps
  /\ bb' = bitor(bb, rhs)
  /\ nops' = nops + 1
  /\ src' = NoSquare
  /\ out' = NotRendered
  /\ UNCHANGED <<maskVars, sqVars, pieceVars>>

Xor(rhs) ==
  /\ nops < MaxOps
  /\ bb' = bitxor(bb, rhs)
  /\ nops' = nops + 1
  /\ src' = NoSquare
  /\ out' = NotRendered
  /\ UNCHANGED <<maskVars, sqVars, pieceVars>>

Not ==
  /\ nops < MaxOps
  /\ bb' = not(bb)
  /\ nops' = nops + 1
  /\ src' = NoSquare
  /\ out' = NotRendered
  /\ UNCHANGED <<maskVars, sqVars, pieceVars>>

\* bb.to_string()
Render ==
  /\ out = NotRendered
  /\ out' = fmt(bb)
  /\ UNCHANGED <<bb, nops, src, maskVars, sqVars, pieceVars>>

Next ==
  \/ \E sq \in Squares : Convert(sq)
  \/ \E rhs \in Masks : And(rhs)
  \/ \E rhs \in Masks : Or(rhs)
  \/ \E rhs \in Masks : Xor(rhs)
  \/ Not
  \/ Render

Spec == Init /\ [][Next]_vars

\* ------------------------------------------------------------ mask fold
\* The nine masks of one family OR-ed into an accumulator, in any order.

\* FILE_n or RANK_n.
Mask(fam, n) == IF fam = "FILE" THEN FILES[n] ELSE RANKS[n]

InitMasks ==
  /\ family \in {"FILE", "RANK"}
  /\ seen = {}
  /\ bb = EMPTY
  /\ nops = 0
  /\ src = NoSquare
  /\ out = NotRendered
  /\ held = NoSquare
  /\ got = NotRead
  /\ call = NoCall
  /\ val = NoValue
  /\ chain = <<>>

\* bb = &bb | &FILE_n (or RANK_n), for a mask not yet in the union.
Union(n) ==
  /\ n \notin seen
  /\ bb' = bitor(bb, Mask(family, n))
  /\ seen' = seen \cup {n}
  /\ UNCHANGED <<nops, src, out, family, sqVars, pieceVars>>

NextMasks == \E n \in 1..9 : Union(n)

SpecMasks == InitMasks /\ [][NextMasks]_vars

\* ------------------------------------------------------------ Square spec
\* One Square is made, by from_coord or by naming a constant, and read.

\* The values of a u8 argument.
U8 == 0 .. 255

\* The digits of the 1-based display names.
Digit == <<"1", "2", "3", "4", "5", "6", "7", "8", "9">>

\* The name SQ_{file+1}{rank+1}.
SquareName(file, rank) == "SQ_" \o Digit[file + 1] \o Digit[rank + 1]

InitSquare ==
  /\ held = NoSquare
  /\ got = NotRead
  /\ call = NoCall
  /\ val = NoValue
  /\ chain = <<>>
  /\ bb = EMPTY
  /\ nops = 0
  /\ src = NoSquare
  /\ out = NotRendered
  /\ family = NoFamily
  /\ seen = {}

\* Square::from_coord(file, rank) on any two u8 arguments; a panic ends the
\* program.
FromCoord ==
  /\ call = NoCall
  /\ \E file \in U8, rank \in U8 :
       LET r == from_coord(file, rank)
       IN  /\ call' = <<"from_coord", file, rank, r>>
           /\ held' = IF Panicked(r) THEN NoSquare ELSE <<Val(r)>>
  /\ UNCHANGED <<got, bbVars, maskVars, pieceVars>>

\* Square::SQ_{file+1}{rank+1}, any of the 81 constants.
NamedSquare ==
  /\ call = NoCall
  /\ \E file \in Coord, rank \in Coord :
       LET c == Square_const(SquareName(file, rank))
       IN  /\ call' = <<"const", file, rank, Ok(c)>>
           /\ held' = <<c>>
  /\ UNCHANGED <<got, bbVars, maskVars, pieceVars>>

\* held.file(), held.rank(), held.index()
Read ==
  /\ held # NoSquare
  /\ got = NotRead
  /\ got' = <<Square_file(held[1]), Square_rank(held[1]), Square_index(held[1])>>
  /\ UNCHANGED <<held, call, bbVars, maskVars, pieceVars>>

NextSquare ==
  \/ FromCoord
  \/ NamedSquare
  \/ Read

SpecSquare == InitSquare /\ [][NextSquare]_vars

\* ------------------------------------------------------------ Piece spec
\* A raw u8 is decoded into a PieceKind or a Piece, and the value held is
\* passed on through the interface; a panic ends the program.

\* Longest run of promote() calls made in a row.
MaxPromotes == 3

Holds(tag) == val # NoValue /\ val[1] = tag

\* The value a call leaves held: what it returned, or nothing after a panic.
Kept(tag, r) == IF Panicked(r) THEN NoValue ELSE <<tag, Val(r)>>

InitPiece ==
  /\ val \in {<<"u8", v>> : v \in U8}
  /\ call = NoCall
  /\ chain = <<>>
  /\ held = NoSquare
  /\ got = NotRead
  /\ bb = EMPTY
  /\ nops = 0
  /\ src = NoSquare
  /\ out = NotRendered
  /\ family = NoFamily
  /\ seen = {}

\* PieceKind::from(v)
KindFrom ==
  /\ Holds("u8")
  /\ LET r == PieceKind_from(val[2])
     IN  /\ call' = <<"PieceKind::from", val[2], r>>
         /\ val' = Kept("PieceKind", r)
  /\ chain' = <<>>
  /\ UNCHANGED <<held, got, bbVars, maskVars>>

\* Piece::from(v)
PieceFrom ==
  /\ Holds("u8")
  /\ LET r == Piece_from(val[2])
     IN  /\ call' = <<"Piece::from", val[2], r>>
         /\ val' = Kept("Piece", r)
  /\ chain' = <<>>
  /\ UNCHANGED <<held, got, bbVars, maskVars>>

\* kind as u8
KindAsU8 ==
  /\ Holds("PieceKind")
  /\ call' = <<"PieceKind as u8", val[2], Ok(PieceKind_as_u8(val[2]))>>
  /\ val' = <<"u8", PieceKind_as_u8(val[2])>>
  /\ chain' = <<>>
  /\ UNCHANGED <<held, got, bbVars, maskVars>>

\* piece as u8
PieceAsU8 ==
  /\ Holds("Piece")
  /\ call' = <<"Piece as u8", val[2], Ok(Piece_as_u8(val[2]))>>
  /\ val' = <<"u8", Piece_as_u8(val[2])>>
  /\ chain' = <<>>
  /\ UNCHANGED <<held, got, bbVars, maskVars>>

\* Piece::new(color, kind), with either colour
PieceNew ==
  /\ Holds("PieceKind")
  /\ \E color \in Colors :
       LET r == Piece_new(color, val[2])
       IN  /\ call' = <<"Piece::new", <<color, val[2]>>, r>>
           /\ val' = Kept("Piece", r)
  /\ chain' = <<>>
  /\ UNCHANGED <<held, got, bbVars, maskVars>>

\* piece.kind()
PieceKindOf ==
  /\ Holds("Piece")
  /\ LET r == Piece_kind(val[2])
     IN  /\ call' = <<"Piece::kind", val[2], r>>
         /\ val' = Kept("PieceKind", r)
  /\ chain' = <<>>
  /\ UNCHANGED <<held, got, bbVars, maskVars>>

\* What promote() leaves held: the promoted value on Some, the value it was
\* called on on None, nothing after a panic.
Promoted(tag, r) ==
  IF Panicked(r) THEN NoValue
  ELSE IF Val(r) = None THEN val ELSE <<tag, Val(r)[2]>>

\* kind.promote()
KindPromote ==
  /\ Holds("PieceKind")
  /\ Len(chain) < MaxPromotes
  /\ LET r == PieceKind_promote(val[2])
     IN  /\ call' = <<"PieceKind::promote", val[2], r>>
         /\ val' = Promoted("PieceKind", r)
         /\ chain' = Append(chain, r)
  /\ UNCHANGED <<held, got, bbVars, maskVars>>

\* piece.promote()
PiecePromote ==
  /\ Holds("Piece")
  /\ Len(chain) < MaxPromotes
  /\ LET r == Piece_promote(val[2])
     IN  /\ call' = <<"Piece::promote", val[2], r>>
         /\ val' = Promoted("Piece", r)
         /\ chain' = Append(chain, r)
  /\ UNCHANGED <<held, got, bbVars, maskVars>>

NextPiece ==
  \/ KindFrom
  \/ PieceFrom
  \/ KindAsU8
  \/ PieceAsU8
  \/ PieceNew
  \/ PieceKindOf
  \/ KindPromote
  \/ PiecePromote

SpecPiece == InitPiece /\ [][NextPiece]_vars

\* ------------------------------------------------------------ claims

\* C2: for file, rank in 0..8, from_coord(file, rank) has index file*9 + rank,
\* file() = file and rank() = rank; the 81 pairs map one-to-one onto the
\* indices 0..80; the constant SQ_{f+1}{r+1} equals from_coord(f, r).
C2_Coordinates ==
  /\ (call # NoCall /\ call[2] \in Coord /\ call[3] \in Coord) =>
       /\ ~ Panicked(call[4])
       /\ held = <<Val(call[4])>>
       /\ Square_index(held[1]) = call[2] * 9 + call[3]
       /\ Square_index(held[1]) \in 0 .. 80
       /\ \A f \in Coord, r \in Coord :
            (from_coord(f, r) = Ok(held[1])) <=> (f = call[2] /\ r = call[3])
       /\ Square_const(SquareName(call[2], call[3])) = held[1]
       /\ from_coord(call[2], call[3]) = Ok(held[1])
       /\ got # NotRead => got = <<call[2], call[3], call[2] * 9 + call[3]>>
  /\ {Square_index(Val(from_coord(f, r))) : f \in Coord, r \in Coord}
       = 0 .. (Square_COUNT - 1)

C2_Witness ==
  /\ call # NoCall
  /\ call[1] = "from_coord"
  /\ call[2] = 8
  /\ call[3] = 7
  /\ got = <<8, 7, 79>>


\* s is a member of the set b: (b AND SQUARES[s.index()]).is_any().
Member(s, b) == is_any(bitand(b, SQUARES_at(Square_index(s))))

\* C1: every Bitboard built from the constants, From<Square> and the
\* operators AND, OR, XOR, NOT has bits 81..127 clear.
C1_HighBitsClear == \A i \in bb : i < 81

\* C3: the Bitboard converted from a square s (owned or by reference) is
\* SQUARES[s.index()], has count 1, its only set bit is bit s.index(), and
\* no other square converts to the same board.
C3_Singleton ==
  src # NoSquare =>
    /\ bb = SQUARES_at(Square_index(src[1]))
    /\ Bitboard_ref_from(src[1]) = bb
    /\ count(bb) = 1
    /\ \A i \in BitPos : (i \in bb) <=> (i = Square_index(src[1]))
    /\ \A t \in Squares : t # src[1] => Bitboard_from(t) # bb

C3_Witness == src # NoSquare /\ Square_index(src[1]) = 80 /\ count(bb) = 1

\* C4: the nine file masks, and the nine rank masks, are pairwise disjoint
\* and their union is FULL = (1 << 81) - 1, the bits 0..80: a union of some
\* masks meets none of the others, and the union of all nine is FULL.
C4_Partition ==
  /\ FULL = 0 .. 80
  /\ \A n \in 1..9 : n \notin seen => bitand(bb, Mask(family, n)) = EMPTY
  /\ \A n \in seen : bitand(bb, Mask(family, n)) = Mask(family, n)
  /\ seen = 1..9 => bb = FULL
  /\ seen # 1..9 => bb # FULL

C4_Witness == family = "RANK" /\ seen = 1..9 /\ bb = FULL

\* C5: count() is the number of member squares, and is_empty() holds iff
\* there is no member square, is_any() being its negation.
C5_CountIsMembers ==
  /\ count(bb) = Cardinality({s \in Squares : Member(s, bb)})
  /\ is_empty(bb) <=> ~ \E s \in Squares : Member(s, bb)
  /\ is_any(bb) <=> ~ is_empty(bb)

\* The text of 9 lines of 9 characters whose character at line k, column j
\* (0-based) is '1' iff On(k, j).
Grid(On(_, _)) ==
  [i \in 1..90 |->
    IF i % 10 = 0 THEN "\n"
    ELSE IF On((i - 1) \div 10, (i - 1) % 10) THEN "1" ELSE "0"]

\* C6: rendering never panics and gives 9 lines of 9 characters, each line
\* ended by a line break; the character at line k, column j is '1' iff
\* from_coord(8 - j, k) is a member of the board, else '0'.  EMPTY is all
\* '0', FULL all '1', RANK_3 has only its third line all '1', FILE_8 has a
\* '1' as the second character of every line, SQ_11 as the last character of
\* the first line, SQ_65 as the 4th character of the 5th line.
C6_Display ==
  out # NotRendered =>
    /\ ~ Panicked(out)
    /\ Len(Val(out)) = 90
    /\ \A k \in 0..8 :
         /\ Val(out)[10 * k + 10] = "\n"
         /\ \A j \in 0..8 :
              Val(out)[10 * k + j + 1] =
                IF Member(Val(from_coord(8 - j, k)), bb) THEN "1" ELSE "0"
    /\ bb = EMPTY => Val(out) = Grid(LAMBDA k, j : FALSE)
    /\ bb = FULL => Val(out) = Grid(LAMBDA k, j : TRUE)
    /\ bb = RANK_3 => Val(out) = Grid(LAMBDA k, j : k = 2)
    /\ bb = FILE_8 => Val(out) = Grid(LAMBDA k, j : j = 1)
    /\ src = <<0>> => Val(out) = Grid(LAMBDA k, j : k = 0 /\ j = 8)
    /\ src = <<49>> => Val(out) = Grid(LAMBDA k, j : k = 4 /\ j = 3)

C6_Witness ==
  /\ out # NotRendered
  /\ src = <<49>>
  /\ Val(out)[44] = "1"

\* The last call was `name`.
Called(name) == call # NoCall /\ call[1] = name

\* C7: for each of the 2 x 14 (color, kind) pairs Piece::new does not panic,
\* packs (kind as u8) | (16 if White, else 0), and kind() and color() give
\* the pair back; of is_black() and is_white() exactly one holds for every
\* Piece, and is_black() holds iff color() is Black.
C7_NewRoundTrip ==
  /\ Called("Piece::new") =>
       LET color == call[2][1]
           kind == call[2][2]
       IN  /\ ~ Panicked(call[3])
           /\ Piece_as_u8(Val(call[3])) =
                PieceKind_as_u8(kind) + (IF color = "White" THEN 16 ELSE 0)
           /\ Piece_kind(Val(call[3])) = Ok(kind)
           /\ Piece_color(Val(call[3])) = color
  /\ Holds("Piece") =>
       /\ Piece_is_black(val[2]) # Piece_is_white(val[2])
       /\ Piece_is_black(val[2]) <=> (Piece_color(val[2]) = "Black")

C7_Witness == Called("Piece::new") /\ call[2] = <<"White", "Dragon">>

\* The 14 kinds in the order of their values 0..13, the base kind of each
\* kind, and the promoted kinds.
KindOrder ==
  <<"Pawn", "Lance", "Knight", "Silver", "Bishop", "Rook", "Gold", "King",
    "ProPawn", "ProLance", "ProKnight", "ProSilver", "Horse", "Dragon">>
BaseOf(k) ==
  CASE k = "ProPawn" -> "Pawn"
    [] k = "ProLance" -> "Lance"
    [] k = "ProKnight" -> "Knight"
    [] k = "ProSilver" -> "Silver"
    [] k = "Horse" -> "Bishop"
    [] k = "Dragon" -> "Rook"
    [] OTHER -> k
PromotedKinds ==
  {"ProPawn", "ProLance", "ProKnight", "ProSilver", "Horse", "Dragon"}

\* C8: PieceKind::from and `kind as u8` are mutually inverse over 0..13, with
\* Pawn..King at 0..7 and ProPawn..Dragon at 8..13; the low 3 bits of a
\* kind's value are its base kind's value, and bit 3 is set iff
\* is_promoted().
C8_KindRoundTrip ==
  /\ (Called("PieceKind::from") /\ call[2] \in 0 .. 13) =>
       /\ call[3] = Ok(KindOrder[call[2] + 1])
       /\ PieceKind_as_u8(Val(call[3])) = call[2]
  /\ Called("PieceKind as u8") =>
       /\ Val(call[3]) \in 0 .. 13
       /\ KindOrder[Val(call[3]) + 1] = call[2]
       /\ PieceKind_from(Val(call[3])) = Ok(call[2])
  /\ Holds("PieceKind") =>
       /\ PieceKind_as_u8(val[2]) % 8 = PieceKind_as_u8(BaseOf(val[2]))
       /\ BaseOf(val[2]) \in BaseKinds
       /\ ((PieceKind_as_u8(val[2]) \div 8) % 2 = 1)
            <=> PieceKind_is_promoted(val[2])
       /\ PieceKind_is_promoted(val[2]) <=> (val[2] \in PromotedKinds)

C8_Witness ==
  /\ Called("PieceKind as u8")
  /\ call[2] = "Horse"
  /\ val = <<"u8", 12>>

\* What promote() is to return on kind k by the table: the promoted form
\* of Pawn, Lance, Knight, Silver, Bishop, Rook, and None for the rest.
PromoteTable(k) ==
  CASE k = "Pawn" -> Some("ProPawn")
    [] k = "Lance" -> Some("ProLance")
    [] k = "Knight" -> Some("ProKnight")
    [] k = "Silver" -> Some("ProSilver")
    [] k = "Bishop" -> Some("Horse")
    [] k = "Rook" -> Some("Dragon")
    [] OTHER -> None

\* The Piece variant of a colour and a kind, by its name.
PieceNamed(color, k) == (IF color = "Black" THEN "B" ELSE "W") \o k

\* f mapped over an Option.
MapPiece(opt, color) ==
  IF opt = None THEN None ELSE Some(PieceNamed(color, opt[2]))

\* C9: PieceKind::promote follows the table; for each Piece p, p.promote()
\* is p.kind().promote() mapped through Piece::new(p.color(), _), so the
\* colour is kept; and p.is_promoted() = p.kind().is_promoted().
C9_PromoteTable ==
  /\ Called("PieceKind::promote") => call[3] = Ok(PromoteTable(call[2]))
  /\ Called("Piece::promote") =>
       LET p == call[2]
           k == Val(Piece_kind(p))
           viaKind == Val(PieceKind_promote(k))
       IN  /\ ~ Panicked(call[3])
           /\ Val(call[3]) =
                IF viaKind = None THEN None
                ELSE Some(Val(Piece_new(Piece_color(p), viaKind[2])))
           /\ Val(call[3]) = MapPiece(PromoteTable(k), Piece_color(p))
           /\ p = PieceNamed(Piece_color(p), k)
           /\ Val(call[3]) # None =>
                Piece_color(Val(call[3])[2]) = Piece_color(p)
  /\ Holds("Piece") =>
       Piece_is_promoted(val[2])
         <=> PieceKind_is_promoted(Val(Piece_kind(val[2])))

C9_Witness ==
  /\ Called("Piece::promote")
  /\ call[2] = "WBishop"
  /\ call[3] = Ok(Some("WHorse"))

\* is_promoted() of the kind or Piece v held under tag.
IsPromoted(tag, v) ==
  IF tag = "Piece" THEN Piece_is_promoted(v) ELSE PieceKind_is_promoted(v)

\* `as u8` of the kind or Piece v held under tag.
AsU8(tag, v) == IF tag = "Piece" THEN Piece_as_u8(v) ELSE PieceKind_as_u8(v)

\* promote() of the kind or Piece v held under tag.
PromoteOf(tag, v) ==
  IF tag = "Piece" THEN Piece_promote(v) ELSE PieceKind_promote(v)

\* C10: promotion is one-way and happens at most once: of promote() calls
\* made in a row only the first can return a value; a value q returned is
\* promoted, q.promote() is None, and q keeps the low-3-bit base kind and
\* the colour; promote(), kind() and Piece::new never turn a promoted
\* value into an unpromoted one.
C10_OneWay ==
  /\ \A i \in 2 .. Len(chain) : chain[i] = Ok(None)
  /\ \A tag \in {"Piece", "PieceKind"} :
       Called(tag \o "::promote") =>
         /\ ~ Panicked(call[3])
         /\ IsPromoted(tag, call[2]) => call[3] = Ok(None)
         /\ Val(call[3]) # None =>
              LET q == Val(call[3])[2]
              IN  /\ IsPromoted(tag, q)
                  /\ PromoteOf(tag, q) = Ok(None)
                  /\ AsU8(tag, q) % 8 = AsU8(tag, call[2]) % 8
                  /\ (AsU8(tag, q) \div 16) = (AsU8(tag, call[2]) \div 16)
                  /\ val = <<tag, q>>
  /\ Called("Piece::kind") =>
       /\ ~ Panicked(call[3])
       /\ Piece_is_promoted(call[2]) => PieceKind_is_promoted(Val(call[3]))
  /\ Called("Piece::new") =>
       /\ ~ Panicked(call[3])
       /\ PieceKind_is_promoted(call[2][2]) => Piece_is_promoted(Val(call[3]))

C10_Witness ==
  /\ Len(chain) = 3
  /\ chain[1] = Ok(Some("WHorse"))
  /\ val = <<"Piece", "WHorse">>

\* The u8 values that are the value of a Piece, and of a PieceKind.
ValidPieceValues == (0 .. 13) \cup (16 .. 29)
ValidKindValues == 0 .. 13

\* C11: Piece::from(v) returns a Piece p with (p as u8) = v iff v is in
\* 0..13 or 16..29 and panics for every other u8 (14, 15 and 30..255
\* included); PieceKind::from(v) returns a kind iff v is in 0..13 and panics
\* for 14..255; after a panic no value is held.
C11_FromU8 ==
  /\ Called("Piece::from") =>
       /\ (~ Panicked(call[3])) <=> (call[2] \in ValidPieceValues)
       /\ ~ Panicked(call[3]) =>
            /\ Val(call[3]) \in Pieces
            /\ Piece_as_u8(Val(call[3])) = call[2]
            /\ val = <<"Piece", Val(call[3])>>
       /\ Panicked(call[3]) => val = NoValue
  /\ Called("PieceKind::from") =>
       /\ (~ Panicked(call[3])) <=> (call[2] \in ValidKindValues)
       /\ ~ Panicked(call[3]) =>
            /\ Val(call[3]) \in PieceKinds
            /\ PieceKind_as_u8(Val(call[3])) = call[2]
            /\ val = <<"PieceKind", Val(call[3])>>
       /\ Panicked(call[3]) => val = NoValue

C11_Witness ==
  /\ Called("Piece::from")
  /\ call[2] = 14
  /\ Panicked(call[3])
  /\ val = NoValue

C13_MasksAgree ==
  src # NoSquare =>
    LET s == src[1]
        f0 == Square_file(s)
        r0 == Square_rank(s)
    IN  /\ \A f \in Coord : Member(s, FILES[f + 1]) <=> (f0 = f)
        /\ \A r \in Coord : Member(s, RANKS[r + 1]) <=> (r0 = r)
        /\ from_coord(f0, r0) = Ok(s)
        /\ bitand(FILES[f0 + 1], RANKS[r0 + 1]) = bb
        /\ bitand(FILES[f0 + 1], RANKS[r0 + 1])
             = Bitboard_from(Val(from_coord(f0, r0)))
        /\ count(bitand(FILES[f0 + 1], RANKS[r0 + 1])) = 1
        /\ \A f \in Coord, r \in Coord :
             (bitand(FILES[f + 1], RANKS[r + 1]) = bb) <=> (f = f0 /\ r = r0)

C13_Witness ==
  /\ src = <<49>>
  /\ bb = bitand(FILE_6, RANK_5)
  /\ count(bb) = 1

====
